---- MODULE Spec2Model ----
(***************************************************************************)
(* ResumeCraft: the data-type conversion pipeline (dataTypeConverter), the *)
(* Resume schema hooks (screenshot normalisation, version history) and the *)
(* request handlers that write Resume documents.                           *)
(***************************************************************************)
EXTENDS Integers, Sequences, FiniteSets, TLC

(***************************************************************************)
(* Bounds of the model.                                                    *)
(***************************************************************************)
MaxResumes == 2   \* resume documents ever created (ids are never reused)
MaxOps     == 3   \* write requests handled in one behaviour
MaxClock   == 1   \* last value of the millisecond clock (starts at 0)

(***************************************************************************)
(* JavaScript values, tagged by type.                                      *)
(*   undef | null | str s | num n | nan | date d | oid s | arr a | obj f   *)
(***************************************************************************)
Undef   == [t |-> "undef"]
Null    == [t |-> "null"]
NaN     == [t |-> "nan"]
Str(s)  == [t |-> "str", s |-> s]
Num(n)  == [t |-> "num", n |-> n]
Date(d) == [t |-> "date", d |-> d]
Oid(s)  == [t |-> "oid", s |-> s]
Arr(a)  == [t |-> "arr", a |-> a]
Obj(f)  == [t |-> "obj", f |-> f]
Throw   == [t |-> "throw"]          \* a TypeError escaping the function

\* JavaScript truthiness (the `x &&` tests of the converters).
Truthy(v) ==
  CASE v.t = "undef" -> FALSE
    [] v.t = "null"  -> FALSE
    [] v.t = "nan"   -> FALSE
    [] v.t = "str"   -> v.s # ""
    [] v.t = "num"   -> v.n # 0
    [] OTHER         -> TRUE

\* typeof v === 'object'
TypeofObject(v) == v.t \in {"null", "date", "oid", "arr", "obj"}

\* v[k]: only plain objects carry the keys the converters ask for.
HasKey(v, k) == v.t = "obj" /\ k \in DOMAIN v.f
Get(v, k) == IF HasKey(v, k) THEN v.f[k] ELSE Undef

\* v[k] = x on a plain object.
Put(v, k, x) ==
  Obj([y \in (DOMAIN v.f) \cup {k} |-> IF y = k THEN x ELSE v.f[y]])

\* delete v[k]
Del(v, k) ==
  IF HasKey(v, k) THEN Obj([y \in (DOMAIN v.f) \ {k} |-> v.f[y]]) ELSE v

(***************************************************************************)
(* Parsing of the strings the model draws its inputs from.                 *)
(***************************************************************************)
\* parseFloat: the longest numeric prefix, NaN when there is none.
NumericPrefix ==
  ("1" :> 1) @@ ("2" :> 2) @@ ("3" :> 3) @@ ("4" :> 4) @@ ("3abc" :> 3)
ParseFloat(s) == IF s \in DOMAIN NumericPrefix THEN Num(NumericPrefix[s]) ELSE NaN

\* new Date(s): the day number of an ISO date string, invalid otherwise.
IsoDates == ("2020-01-15" :> 18276) @@ ("2021-06-30" :> 18808)
ParseDate(s) == IF s \in DOMAIN IsoDates THEN Date(IsoDates[s]) ELSE NaN

\* The ObjectId of the installed mongodb driver. Every release takes a
\* string of 24 hexadecimal characters; the releases up to bson 5 also take
\* any string of 12 characters (its bytes), the later ones refuse it. The
\* repository pins no release, so either may be the one that runs.
VARIABLE twelveByteIds   \* TRUE: ObjectId takes a 12-character string

HexDigits ==
  {"0", "1", "2", "3", "4", "5", "6", "7", "8", "9",
   "a", "b", "c", "d", "e", "f", "A", "B", "C", "D", "E", "F"}
IsHexString(s) == \A i \in 1..Len(s) : SubSeq(s, i, i) \in HexDigits

\* ObjectId.isValid on a string.
ObjectIdHexLen == 24
ObjectIdByteLen == 12
ObjectIdIsValid(s) ==
  \/ Len(s) = ObjectIdHexLen /\ IsHexString(s)
  \/ Len(s) = ObjectIdByteLen /\ twelveByteIds

\* new ObjectId(s): the twelve bytes, written as the driver prints them (24
\* lower-case hexadecimal characters); a 12-character string gives its own
\* characters as the bytes.
LowerHexDigit ==
  ("A" :> "a") @@ ("B" :> "b") @@ ("C" :> "c") @@ ("D" :> "d") @@ ("E" :> "e")
    @@ ("F" :> "f")
RECURSIVE LowerHex(_)
LowerHex(s) ==
  IF Len(s) = 0 THEN ""
  ELSE LET c == SubSeq(s, 1, 1) IN
       (IF c \in DOMAIN LowerHexDigit THEN LowerHexDigit[c] ELSE c)
         \o LowerHex(SubSeq(s, 2, Len(s)))
NewObjectId(s) == IF Len(s) = ObjectIdHexLen THEN Oid(LowerHex(s)) ELSE Oid(s)

(***************************************************************************)
(* The path-coercion engine: dataTypeConverter.js                          *)
(***************************************************************************)
\* Variant of the date coercion: the parsed date is stored unchecked.
DateCoercionUnchecked(v) ==
  IF Truthy(v) /\ v.t = "str" THEN ParseDate(v.s) ELSE v

DateCoercion(v) ==
  IF Truthy(v) /\ v.t = "str"
  THEN LET date == ParseDate(v.s) IN IF date.t # "nan" THEN date ELSE v
  ELSE v

NumberCoercion(v) ==
  IF Truthy(v) /\ v.t = "str"
  THEN LET num == ParseFloat(v.s) IN IF num.t # "nan" THEN num ELSE v
  ELSE v

ObjectIdCoercion(v) ==
  IF Truthy(v) /\ v.t = "str" /\ ObjectIdIsValid(v.s) THEN NewObjectId(v.s) ELSE v

\* Variant of the array coercion: no test that the value is truthy.
ArrayCoercionOfAnything(v) ==
  IF v.t # "arr" THEN Arr(<<>>) ELSE v

ArrayCoercion(v) ==
  IF Truthy(v) /\ v.t # "arr" THEN Arr(<<>>) ELSE v

Coerce(kind, v) ==
  CASE kind = "date"     -> DateCoercion(v)
    [] kind = "number"   -> NumberCoercion(v)
    [] kind = "objectId" -> ObjectIdCoercion(v)
    [] kind = "array"    -> ArrayCoercion(v)

\* One path: descend while the segment holds a truthy object, coerce the
\* value at the last key; a missing or non-object segment ends this path.
RECURSIVE WalkPath(_, _, _)
WalkPath(current, keys, kind) ==
  IF Len(keys) = 1
  THEN IF HasKey(current, keys[1]) /\ Coerce(kind, current.f[keys[1]]) # current.f[keys[1]]
       THEN Put(current, keys[1], Coerce(kind, current.f[keys[1]]))
       ELSE current
  ELSE LET next == Get(current, keys[1]) IN
       IF Truthy(next) /\ TypeofObject(next)
       THEN IF next.t = "obj"
            THEN Put(current, keys[1], WalkPath(next, Tail(keys), kind))
            ELSE current      \* arrays, dates, ids: no such key below
       ELSE current

\* fieldPaths.forEach over result = {...data}: paths i..Len(paths), in order.
RECURSIVE WalkPaths(_, _, _, _)
\* Variant of the loop: a path that cannot be walked ends the whole loop.
WalkPathsAborting(result, paths, i, kind) ==
  IF result.t # "obj" \/ i > Len(paths) THEN result
  ELSE IF /\ Len(paths[i]) > 1
          /\ ~(Truthy(Get(result, paths[i][1])) /\ TypeofObject(Get(result, paths[i][1])))
       THEN result
       ELSE WalkPaths(WalkPath(result, paths[i], kind), paths, i + 1, kind)

WalkPaths(result, paths, i, kind) ==
  IF result.t # "obj" \/ i > Len(paths) THEN result
  ELSE WalkPaths(WalkPath(result, paths[i], kind), paths, i + 1, kind)

\* A path whose first segment is no key of the document leaves the document
\* as it is, whatever the coercion: forEach is run on the other paths, in
\* the order of the list.
PathsInto(data, paths) ==
  LET Starts(path) == HasKey(data, path[1]) IN SelectSeq(paths, Starts)

convertDates(data, dateFields) ==
  WalkPaths(data, PathsInto(data, dateFields), 1, "date")
convertNumbers(data, numberFields) ==
  WalkPaths(data, PathsInto(data, numberFields), 1, "number")
convertObjectIds(data, objectIdFields) ==
  WalkPaths(data, PathsInto(data, objectIdFields), 1, "objectId")
ensureArrays(data, arrayFields) ==
  WalkPaths(data, PathsInto(data, arrayFields), 1, "array")

\* parseFloat of a string lat / lng, with no NaN test.
CoordinateFloat(v) == IF v.t = "str" THEN ParseFloat(v.s) ELSE v

ConvertLatLng(coordinates) ==
  LET a == IF Get(coordinates, "lat").t = "str"
           THEN Put(coordinates, "lat", CoordinateFloat(Get(coordinates, "lat")))
           ELSE coordinates
  IN IF Get(a, "lng").t = "str"
     THEN Put(a, "lng", CoordinateFloat(Get(a, "lng")))
     ELSE a

\* result.address.coordinates of a holder (the document or personalInfo).
ConvertAddressCoordinates(holder) ==
  LET address == Get(holder, "address") IN
  IF Truthy(address) /\ Truthy(Get(address, "coordinates"))
     /\ Get(address, "coordinates").t = "obj"
  THEN Put(holder, "address",
           Put(address, "coordinates", ConvertLatLng(Get(address, "coordinates"))))
  ELSE holder

convertCoordinates(data) ==
  LET a == ConvertAddressCoordinates(data) IN
  IF Truthy(Get(a, "personalInfo")) /\ Get(a, "personalInfo").t = "obj"
  THEN Put(a, "personalInfo", ConvertAddressCoordinates(Get(a, "personalInfo")))
  ELSE a

(***************************************************************************)
(* The screenshot normaliser (converter, schema setter and both hooks     *)
(* carry the same element map).                                            *)
(***************************************************************************)
\* Variant of the element map: an element that has a url is stamped again.
NormalizeScreenshotRestamps(screenshot, clock) ==
  IF TypeofObject(screenshot) /\ Truthy(Get(screenshot, "url"))
  THEN Put(screenshot, "uploadedAt", Date(clock))
  ELSE IF screenshot.t = "str"
       THEN Obj([url |-> screenshot, caption |-> Str(""), uploadedAt |-> Date(clock)])
       ELSE screenshot

\* The element map of screenshots.map(...).
NormalizeScreenshot(screenshot, clock) ==
  IF TypeofObject(screenshot) /\ Truthy(Get(screenshot, "url")) THEN screenshot
  ELSE IF screenshot.t = "str"
       THEN Obj([url |-> screenshot, caption |-> Str(""), uploadedAt |-> Date(clock)])
       ELSE screenshot

\* Variant of the project map: the elements that are no string are dropped.
NormalizeProjectFilters(project, clock) ==
  LET shots == Get(project, "screenshots")
      IsString(shot) == shot.t = "str"
  IN IF Truthy(shots) /\ shots.t = "arr"
     THEN Put(project, "screenshots",
              Arr([i \in 1..Len(SelectSeq(shots.a, IsString)) |->
                     Obj([url |-> SelectSeq(shots.a, IsString)[i], caption |-> Str(""),
                          uploadedAt |-> Date(clock)])]))
     ELSE project

\* project.screenshots = project.screenshots.map(...)
NormalizeProject(project, clock) ==
  LET shots == Get(project, "screenshots") IN
  IF Truthy(shots) /\ shots.t = "arr"
  THEN Put(project, "screenshots",
           Arr([i \in 1..Len(shots.a) |-> NormalizeScreenshot(shots.a[i], clock)]))
  ELSE project

\* null.url and null.screenshots raise a TypeError.
ScreenshotsThrow(projects) ==
  \E i \in 1..Len(projects.a) :
    \/ projects.a[i].t \in {"null", "undef"}
    \/ /\ Get(projects.a[i], "screenshots").t = "arr"
       /\ \E j \in 1..Len(Get(projects.a[i], "screenshots").a) :
            Get(projects.a[i], "screenshots").a[j].t = "null"

\* projects.forEach(project => ...)
NormalizeProjects(projects, clock) ==
  Arr([i \in 1..Len(projects.a) |-> NormalizeProject(projects.a[i], clock)])

convertScreenshots(data, clock) ==
  LET projects == Get(data, "projects") IN
  IF Truthy(projects) /\ projects.t = "arr"
  THEN IF ScreenshotsThrow(projects) THEN Throw
       ELSE Put(data, "projects", NormalizeProjects(projects, clock))
  ELSE data

(***************************************************************************)
(* convertResumeData and the request middleware                            *)
(***************************************************************************)
ResumeDateFields ==
  << <<"startDate">>, <<"endDate">>,
     <<"personalInfo", "startDate">>, <<"personalInfo", "endDate">>,
     <<"education", "startDate">>, <<"education", "endDate">>,
     <<"experiences", "startDate">>, <<"experiences", "endDate">>,
     <<"projects", "startDate">>, <<"projects", "endDate">>,
     <<"certifications", "issueDate">>, <<"certifications", "expiryDate">>,
     <<"adminApproval", "reviewedAt">> >>

ResumeNumberFields == << <<"education", "gpa">>, <<"version">> >>

ResumeObjectIdFields == << <<"user">>, <<"adminApproval", "reviewedBy">> >>

ResumeArrayFields ==
  << <<"education">>, <<"experiences">>, <<"projects">>, <<"skills">>,
     <<"hobbies">>, <<"socialMedia">>, <<"languages">>, <<"certifications">>,
     <<"previousVersions">> >>

\* Variant of the converter: the identifier stage left out.
convertResumeDataWithoutIds(data, clock) ==
  convertScreenshots(
    convertCoordinates(
      ensureArrays(
        convertNumbers(convertDates(data, ResumeDateFields), ResumeNumberFields),
        ResumeArrayFields)),
    clock)

convertResumeData(data, clock) ==
  convertScreenshots(
    convertCoordinates(
      ensureArrays(
        convertObjectIds(
          convertNumbers(
            convertDates(data, ResumeDateFields),
            ResumeNumberFields),
          ResumeObjectIdFields),
        ResumeArrayFields)),
    clock)

\* req.body = convertResumeData(req.body), after delete req.body._id
resumeDataTypeMiddleware(body, clock) ==
  convertResumeData(IF Truthy(Get(body, "_id")) THEN Del(body, "_id") ELSE body, clock)

(***************************************************************************)
(* The Resume schema (models/Resume.js) as the persistence layer applies   *)
(* it: casting of a written document, defaults, and the schema setter.     *)
(***************************************************************************)
Present(d, k) == Get(d, k).t # "undef"

ApprovalStatusEnum == {"pending", "approved", "rejected"}

\* The screenshots setter of projectSchema: the same element map.
ScreenshotsSetter(project, clock) == NormalizeProject(project, clock)

\* Variant of the schema: screenshots declared as an array of anything: nothing is refused.
ScreenshotElementCastAny(screenshot) == FALSE

\* An element of screenshots is a sub-document {url, caption, publicId,
\* uploadedAt}: a value that is no object cannot be cast to it.
ScreenshotElementCastFails(screenshot) == screenshot.t # "obj"

\* The sub-document as stored: uploadedAt defaults to Date.now.
StoredScreenshot(screenshot, clock) ==
  IF screenshot.t # "obj" \/ Present(screenshot, "uploadedAt") THEN screenshot
  ELSE Put(screenshot, "uploadedAt", Date(clock))

StoredProject(project, clock) ==
  LET shots == Get(project, "screenshots") IN
  IF shots.t = "arr"
  THEN Put(project, "screenshots",
           Arr([i \in 1..Len(shots.a) |-> StoredScreenshot(shots.a[i], clock)]))
  ELSE Put(project, "screenshots", Arr(<<>>))

ProjectCastFails(project) ==
  \/ project.t # "obj"
  \/ /\ Present(project, "screenshots")
     /\ \/ Get(project, "screenshots").t # "arr"
        \/ \E j \in 1..Len(Get(project, "screenshots").a) :
             ScreenshotElementCastFails(Get(project, "screenshots").a[j])

\* projects: [projectSchema], the setter applied to each project first.
ProjectsCastFails(projects, clock) ==
  \/ projects.t # "arr"
  \/ \E i \in 1..Len(projects.a) :
       ProjectCastFails(ScreenshotsSetter(projects.a[i], clock))

StoredProjects(projects, clock) ==
  Arr([i \in 1..Len(projects.a) |->
         StoredProject(ScreenshotsSetter(projects.a[i], clock), clock)])

\* adminApproval: {status (enum), reviewedBy (ObjectId), reviewedAt (Date),
\* comments (String)}
ApprovalCastFails(a) ==
  \/ a.t # "obj"
  \/ Present(a, "status")
       /\ (Get(a, "status").t # "str" \/ Get(a, "status").s \notin ApprovalStatusEnum)
  \/ Present(a, "reviewedBy") /\ Get(a, "reviewedBy").t # "oid"
  \/ Present(a, "reviewedAt") /\ Get(a, "reviewedAt").t # "date"
  \/ Present(a, "comments") /\ Get(a, "comments").t # "str"

\* The stored nested object; an absent key is stored as "" / -1.
NoReviewer == ""
NoComments == ""
NoStatus   == ""
NotReviewed == -1
StoredApproval(a) ==
  [status     |-> IF Present(a, "status") THEN Get(a, "status").s ELSE NoStatus,
   reviewedBy |-> IF Present(a, "reviewedBy") THEN Get(a, "reviewedBy").s ELSE NoReviewer,
   reviewedAt |-> IF Present(a, "reviewedAt") THEN Get(a, "reviewedAt").d ELSE NotReviewed,
   comments   |-> IF Present(a, "comments") THEN Get(a, "comments").s ELSE NoComments]

\* previousVersions: [{version: Number, data: Mixed, createdAt: Date}]
HistoryCastFails(h) ==
  \/ h.t # "arr"
  \/ \E i \in 1..Len(h.a) :
       \/ h.a[i].t # "obj"
       \/ Present(h.a[i], "version") /\ Get(h.a[i], "version").t # "num"

StoredHistory(h, clock) ==
  [i \in 1..Len(h.a) |->
     [version   |-> Get(h.a[i], "version"),
      data      |-> Get(h.a[i], "data"),
      createdAt |-> clock]]

\* Casting the written fields of a document against resumeSchema.
SchemaCastFails(d, clock) ==
  \/ Present(d, "title") /\ Get(d, "title").t # "str"
  \/ Present(d, "status") /\ Get(d, "status").t # "str"
  \/ Present(d, "version") /\ Get(d, "version").t # "num"
  \/ Present(d, "user")
       /\ Get(d, "user").t # "oid"
       /\ ~(Get(d, "user").t = "str" /\ ObjectIdIsValid(Get(d, "user").s))
  \/ Present(d, "previousVersions") /\ HistoryCastFails(Get(d, "previousVersions"))
  \/ Present(d, "adminApproval") /\ ApprovalCastFails(Get(d, "adminApproval"))
  \/ Present(d, "projects") /\ ProjectsCastFails(Get(d, "projects"), clock)

\* title: maxlength [100, 'Title cannot exceed 100 characters']
TitleMaxLen == 100
TitleTooLong(d) ==
  Present(d, "title") /\ Get(d, "title").t = "str" /\ Len(Get(d, "title").s) > TitleMaxLen

\* The written fields of d laid over the stored document r.
WriteFields(r, d, clock) ==
  [exists |-> TRUE,
   user    |-> IF Present(d, "user") THEN Get(d, "user").s ELSE r.user,
   title   |-> IF Present(d, "title") THEN Get(d, "title").s ELSE r.title,
   status  |-> IF Present(d, "status") THEN Get(d, "status").s ELSE r.status,
   version |-> IF Present(d, "version") THEN Get(d, "version").n ELSE r.version,
   previousVersions |->
     IF Present(d, "previousVersions")
     THEN StoredHistory(Get(d, "previousVersions"), clock) ELSE r.previousVersions,
   adminApproval |->
     IF Present(d, "adminApproval")
     THEN StoredApproval(Get(d, "adminApproval")) ELSE r.adminApproval,
   projects |->
     IF Present(d, "projects")
     THEN StoredProjects(Get(d, "projects"), clock) ELSE r.projects]

\* The schema defaults of a new document.
DefaultVersion == 1
SchemaDefaults(user) ==
  [exists |-> TRUE, user |-> user, title |-> "", status |-> "draft",
   version |-> DefaultVersion, previousVersions |-> <<>>,
   adminApproval |-> [status |-> "pending", reviewedBy |-> NoReviewer,
                      reviewedAt |-> NotReviewed, comments |-> NoComments],
   projects |-> Arr(<<>>)]

NoDoc == [exists |-> FALSE]

(***************************************************************************)
(* The save hooks of resumeSchema.                                         *)
(***************************************************************************)
\* pre('save'), first hook: the screenshots of every project of the document.
PreSaveNormalizer(doc, clock) ==
  IF Truthy(doc.projects) /\ doc.projects.t = "arr"
  THEN [doc EXCEPT !.projects = NormalizeProjects(doc.projects, clock)]
  ELSE doc

\* this.toObject() less _id, __v, createdAt, updatedAt: the document as it
\* stands in memory when the hook runs (title, status and version are the
\* fields of it the model keeps).
ToObject(doc) ==
  Obj([title |-> Str(doc.title), status |-> Str(doc.status), version |-> Num(doc.version)])

\* Variant of the hook: the hook without its isModified() test.
VersionHookUnconditional(doc, isModified, isNew, clock) ==
  IF ~isNew
  THEN [doc EXCEPT
          !.previousVersions =
             Append(@, [version |-> Num(doc.version), data |-> ToObject(doc),
                        createdAt |-> clock]),
          !.version = @ + 1]
  ELSE doc

\* Variant of the hook: the hook without its isNew test.
VersionHookOnNew(doc, isModified, isNew, clock) ==
  IF isModified
  THEN [doc EXCEPT
          !.previousVersions =
             Append(@, [version |-> Num(doc.version), data |-> ToObject(doc),
                        createdAt |-> clock]),
          !.version = @ + 1]
  ELSE doc

\* pre('save'), second hook: "Save previous version before updating".
VersionHook(doc, isModified, isNew, clock) ==
  IF isModified /\ ~isNew
  THEN [doc EXCEPT
          !.previousVersions =
             Append(@, [version |-> Num(doc.version), data |-> ToObject(doc),
                        createdAt |-> clock]),
          !.version = @ + 1]
  ELSE doc

\* document.isModified(): some path differs from what was loaded.
IsModified(doc, loaded) == doc # loaded

\* document.save(): both hooks in the order of their registration.
Save(doc, loaded, isNew, clock) ==
  LET normalized == PreSaveNormalizer(doc, clock)
  IN  VersionHook(normalized, IsModified(normalized, loaded), isNew, clock)

(***************************************************************************)
(* The update hook of resumeSchema and findOneAndUpdate.                   *)
(***************************************************************************)
\* Variant of the hook: a block that leaves the projects as they came.
HookProjectsSkipped(holder, clock) == holder

\* One of the two blocks of the hook, on update.projects or $set.projects.
HookProjects(holder, clock) ==
  LET projects == Get(holder, "projects") IN
  IF Truthy(projects) /\ projects.t = "arr"
  THEN Put(holder, "projects", NormalizeProjects(projects, clock))
  ELSE holder

PreUpdateThrows(update) ==
  \/ Get(update, "projects").t = "arr" /\ ScreenshotsThrow(Get(update, "projects"))
  \/ /\ Get(Get(update, "$set"), "projects").t = "arr"
     /\ ScreenshotsThrow(Get(Get(update, "$set"), "projects"))

\* pre(['findOneAndUpdate', 'updateOne', 'updateMany'])
PreUpdateHook(update, clock) ==
  LET a == HookProjects(update, clock) IN
  IF Truthy(Get(a, "$set")) /\ Get(a, "$set").t = "obj"
  THEN Put(a, "$set", HookProjects(Get(a, "$set"), clock))
  ELSE a

\* The update as the driver receives it: keys that are no operator are the
\* fields of a $set, together with those of an explicit $set.
Operators == {"$set", "$push"}
SetDocument(update) ==
  LET set == Get(update, "$set")
      top == (DOMAIN update.f) \ Operators
      sub == IF set.t = "obj" THEN DOMAIN set.f ELSE {}
  IN  Obj([k \in top \cup sub |-> IF k \in sub THEN set.f[k] ELSE update.f[k]])

\* $push: {"projects.0.screenshots": element}
PushPath == "projects.0.screenshots"
PushedScreenshot(update) == Get(Get(update, "$push"), PushPath)

PushFails(r, update) ==
  /\ Present(Get(update, "$push"), PushPath)
  /\ \/ ScreenshotElementCastFails(PushedScreenshot(update))
     \/ Len(r.projects.a) = 0

ApplyPush(r, update, clock) ==
  IF Present(Get(update, "$push"), PushPath)
  THEN LET project == r.projects.a[1]
           shots   == Get(project, "screenshots").a
       IN [r EXCEPT !.projects =
             Arr([r.projects.a EXCEPT ![1] =
                    Put(project, "screenshots",
                        Arr(Append(shots,
                                   StoredScreenshot(PushedScreenshot(update), clock))))])]
  ELSE r

\* Resume.findOneAndUpdate({_id}, update, {new: true, runValidators: true}):
\* the outcome ("ok" or "error") and the document stored afterwards.
FindOneAndUpdate(r, update, clock) ==
  IF PreUpdateThrows(update) THEN [outcome |-> "error", doc |-> r]
  ELSE LET hooked == PreUpdateHook(update, clock)
           set    == SetDocument(hooked)
       IN IF SchemaCastFails(set, clock) \/ TitleTooLong(set)
          THEN [outcome |-> "error", doc |-> r]
          ELSE LET written == WriteFields(r, set, clock) IN
               IF PushFails(written, hooked) THEN [outcome |-> "error", doc |-> r]
               ELSE [outcome |-> "ok", doc |-> ApplyPush(written, hooked, clock)]

\* Resume.create(data): a new document of the schema's defaults and the
\* given fields, saved; title and user are required.
ResumeCreate(data, clock) ==
  IF \/ SchemaCastFails(data, clock)
     \/ ~Truthy(Get(data, "title"))
     \/ TitleTooLong(data)
     \/ ~Present(data, "user")
  THEN [outcome |-> "error", doc |-> NoDoc]
  ELSE LET doc == WriteFields(SchemaDefaults(""), data, clock)
       IN [outcome |-> "ok", doc |-> Save(doc, NoDoc, TRUE, clock)]

(***************************************************************************)
(* State: the resumes collection, the clock, and the last request handled. *)
(***************************************************************************)
VARIABLES
  resumes,   \* resumes[id]: the stored document, or NoDoc
  nextId,    \* the next fresh _id
  now,       \* Date.now()
  ops,       \* requests handled so far
  last,      \* the last request: [op, id, outcome]
  conv,      \* a call of a conversion function on its own: see ConvSpec
  users,     \* users[id]: the stored account, or NoUser
  reqs,      \* reqs[h]: the request handler h is in the middle of
  mail       \* the links sent out by e-mail: [kind, to, token, at, used]

vars == <<resumes, nextId, now, ops, last, conv, twelveByteIds, users, reqs, mail>>

ResumeIds == 1..MaxResumes

\* Accounts: two users and one admin, by _id.
U1 == "507f1f77bcf86cd799439011"
U2 == "507f1f77bcf86cd799439012"
A1 == "507f1f77bcf86cd79943901a"
Users  == {U1, U2}
Admins == {A1}
\* The user whose POST requests the model follows; U2 comes to own a resume
\* through an update only.
Creators == {U1}

(***************************************************************************)
(* Request bodies the model draws from.                                    *)
(***************************************************************************)
Titles == {"A", "B", "C"}
ScreenshotUrl == "http://x/y.png"
CanonicalShot == Obj([url |-> Str("http://x/z.png"), caption |-> Str("c")])
NoUrlShot     == Obj([caption |-> Str("c")])
ProjectOf(shots) ==
  Obj([name |-> Str("p"), description |-> Str("d"), screenshots |-> Arr(shots)])
ProjectInputs ==
  { Arr(<<ProjectOf(<<Str(ScreenshotUrl)>>)>>),
    Arr(<<ProjectOf(<<CanonicalShot, NoUrlShot>>)>>) }
ForgedEntry == Obj([version |-> Num(4), data |-> Obj([title |-> Str("Z")])])
HistoryInputs == {Str("x"), Arr(<<ForgedEntry>>)}
ApprovalInput == Obj([status |-> Str("approved")])

UpdateBodies ==
  {Obj([title |-> Str(t)]) : t \in Titles \ {"A"}}
    \cup {Obj([version |-> v]) : v \in {Str("3"), Str("x")}}
    \cup {Obj([user |-> Str(u)]) : u \in {U2, "zz"}}
    \cup {Obj([previousVersions |-> h]) : h \in HistoryInputs}
    \cup {Obj([adminApproval |-> ApprovalInput])}
    \cup {Obj([projects |-> p]) : p \in ProjectInputs}
    \cup {Obj(("$set" :> Obj([projects |-> Arr(<<ProjectOf(<<Str(ScreenshotUrl)>>)>>)])))}
    \cup {Obj(("$push" :> Obj((PushPath :> e)))) : e \in {Str(ScreenshotUrl), CanonicalShot}}

CreateBodies ==
  {Obj([title |-> Str("A")]),
   Obj([title |-> Str("A"), version |-> Str("3")]),
   Obj([title |-> Str("A"), adminApproval |-> ApprovalInput]),
   Obj([title |-> Str("A"), user |-> Str(U2)]),
   Obj([_id |-> Str("x"), version |-> Num(1)]),
   Obj([title |-> Str("A"), projects |-> Arr(<<ProjectOf(<<Str(ScreenshotUrl)>>)>>)])}

ReviewStatuses == {"approved", "rejected"}
ReviewComments == {"fix"}

(***************************************************************************)
(* Init: an empty collection.                                              *)
(***************************************************************************)
NoRequest == [op |-> "none", id |-> 0, outcome |-> "none"]
NoCall == [fn |-> "none"]
NoUsers == <<>>
NoRequests == <<>>

Init ==
  /\ resumes = [id \in ResumeIds |-> NoDoc]
  /\ nextId = 1
  /\ now = 0
  /\ ops = 0
  /\ last = NoRequest
  /\ conv = NoCall
  /\ twelveByteIds \in BOOLEAN
  /\ users = NoUsers
  /\ reqs = NoRequests
  /\ mail = {}

Handled(op, id, outcome) ==
  /\ ops' = ops + 1
  /\ last' = [op |-> op, id |-> id, outcome |-> outcome]
  /\ UNCHANGED <<conv, twelveByteIds, users, reqs, mail>>

(***************************************************************************)
(* POST /api/resumes                                                       *)
(***************************************************************************)
CreateResume(u, body) ==
  /\ ops < MaxOps
  /\ nextId <= MaxResumes
  /\ \E converted \in {resumeDataTypeMiddleware(body, now)} :
     \E res \in {IF converted = Throw
                 THEN [outcome |-> "error", doc |-> NoDoc]
                 ELSE ResumeCreate(Put(Del(converted, "_id"), "user", Str(u)), now)} :
       IF res.outcome = "ok"
       THEN /\ resumes' = [resumes EXCEPT ![nextId] = res.doc]
            /\ nextId' = nextId + 1
            /\ Handled("create", nextId, "ok")
       ELSE /\ UNCHANGED <<resumes, nextId>>
            /\ Handled("create", 0, res.outcome)
  /\ UNCHANGED now

(***************************************************************************)
(* PUT /api/resumes/:id                                                    *)
(***************************************************************************)
UpdateResume(u, id, body) ==
  /\ ops < MaxOps
  /\ resumes[id].exists
  /\ IF resumes[id].user # u
     THEN /\ UNCHANGED resumes
          /\ Handled("update", id, "401")
     ELSE \E converted \in {resumeDataTypeMiddleware(body, now)} :
          \E res \in {IF converted = Throw
                      THEN [outcome |-> "error", doc |-> resumes[id]]
                      ELSE FindOneAndUpdate(resumes[id], Del(converted, "_id"), now)} :
            /\ resumes' = [resumes EXCEPT ![id] = res.doc]
            /\ Handled("update", id, res.outcome)
  /\ UNCHANGED <<nextId, now>>

(***************************************************************************)
(* PUT /api/admin/resumes/:id/approve                                      *)
(***************************************************************************)
ApproveResume(a, id, status, comments) ==
  /\ ops < MaxOps
  /\ resumes[id].exists
  /\ LET loaded == resumes[id]
         doc == [loaded EXCEPT
                   !.status = status,
                   !.adminApproval = [status |-> status, reviewedBy |-> a,
                                      reviewedAt |-> now, comments |-> comments]]
     IN /\ resumes' = [resumes EXCEPT ![id] = Save(doc, loaded, FALSE, now)]
        /\ Handled("approve", id,
                   IF IsModified(doc, loaded) THEN "ok" ELSE "unmodified")
  /\ UNCHANGED <<nextId, now>>

(***************************************************************************)
(* POST /api/resumes/:id/duplicate                                         *)
(***************************************************************************)
CopySuffix == " (Copy)"

DuplicateResume(u, id) ==
  /\ ops < MaxOps
  /\ nextId <= MaxResumes
  /\ resumes[id].exists
  /\ IF resumes[id].user # u
     THEN /\ UNCHANGED <<resumes, nextId>>
          /\ Handled("duplicate", id, "401")
     ELSE LET original == resumes[id]
              resumeData == Obj([title    |-> Str(original.title \o CopySuffix),
                                 user     |-> Str(u),
                                 status   |-> Str("draft"),
                                 projects |-> original.projects])
              res == ResumeCreate(resumeData, now)
          IN /\ resumes' = [resumes EXCEPT ![nextId] = res.doc]
             /\ nextId' = nextId + 1
             /\ Handled("duplicate", nextId, res.outcome)
  /\ UNCHANGED now

(***************************************************************************)
(* DELETE /api/resumes/:id                                                 *)
(***************************************************************************)
DeleteResume(u, id) ==
  /\ ops < MaxOps
  /\ resumes[id].exists
  /\ IF resumes[id].user # u
     THEN /\ UNCHANGED resumes
          /\ Handled("delete", id, "401")
     ELSE /\ resumes' = [resumes EXCEPT ![id] = NoDoc]
          /\ Handled("delete", id, "ok")
  /\ UNCHANGED <<nextId, now>>

\* A millisecond passes.
Tick ==
  /\ now < MaxClock
  /\ now' = now + 1
  /\ UNCHANGED <<resumes, nextId, ops, last, conv, twelveByteIds, users, reqs, mail>>

Next ==
  \/ \E u \in Creators, body \in CreateBodies : CreateResume(u, body)
  \/ \E u \in Users, id \in ResumeIds, body \in UpdateBodies : UpdateResume(u, id, body)
  \/ \E a \in Admins, id \in ResumeIds, s \in ReviewStatuses, c \in ReviewComments :
       ApproveResume(a, id, s, c)
  \/ \E u \in Users, id \in ResumeIds : DuplicateResume(u, id)
  \/ \E u \in Users, id \in ResumeIds : DeleteResume(u, id)
  \/ Tick

Spec == Init /\ [][Next]_vars

(***************************************************************************)
(* The field lists the other entity converters declare.                    *)
(***************************************************************************)
UserDateFields ==
  << <<"emailVerificationExpire">>, <<"resetPasswordExpire">>, <<"lastLogin">> >>
CertificationDateFields == << <<"issueDate">>, <<"expiryDate">> >>
SkillNumberFields == << <<"yearsOfExperience">> >>
SocialMediaNumberFields == << <<"followers">> >>
TemplateNumberFields ==
  << <<"usageCount">>, <<"rating", "average">>, <<"rating", "count">> >>
OwnedObjectIdFields == << <<"user">>, <<"resume">> >>
TemplateObjectIdFields == << <<"createdBy">> >>

DateFieldLists == {ResumeDateFields, UserDateFields, CertificationDateFields}
NumberFieldLists ==
  {ResumeNumberFields, SkillNumberFields, SocialMediaNumberFields, TemplateNumberFields}
ObjectIdFieldLists ==
  {ResumeObjectIdFields, OwnedObjectIdFields, TemplateObjectIdFields}
ArrayFieldLists == {ResumeArrayFields}

(***************************************************************************)
(* What a call leaves in the caller's document. Every function works on    *)
(* result = {...data}: the top-level keys are copied, the values below     *)
(* them are the caller's own objects, so an assignment below the top level *)
(* is an assignment in the caller's document.                              *)
(***************************************************************************)
NestedPaths(paths) ==
  LET Nested(path) == Len(path) > 1 IN SelectSeq(paths, Nested)

\* current[lastKey] = value, current being result (a one-key path: the copy)
\* or an object of the caller (a longer path).
CallerAfterWalk(data, paths, kind) ==
  WalkPaths(data, PathsInto(data, NestedPaths(paths)), 1, kind)

\* result.address.coordinates.lat = ...: always below the top level.
CallerAfterCoordinates(data) == convertCoordinates(data)

\* project.screenshots = ...: the projects are the caller's objects. (A
\* TypeError leaves the projects before the failing one assigned.)
CallerAfterScreenshots(data, clock) ==
  LET projects == Get(data, "projects") IN
  IF Truthy(projects) /\ projects.t = "arr"
  THEN LET Fails(i) == ScreenshotsThrow(Arr(<<projects.a[i]>>))
           Reached(i) == \A j \in 1..i : ~Fails(j)
       IN Put(data, "projects",
              Arr([i \in 1..Len(projects.a) |->
                     IF Reached(i) THEN NormalizeProject(projects.a[i], clock)
                     ELSE projects.a[i]]))
  ELSE data

\* The six stages of convertResumeData, each on a fresh top-level copy.
CallerAfterResumeData(data, clock) ==
  CallerAfterScreenshots(
    CallerAfterCoordinates(
      CallerAfterWalk(
        CallerAfterWalk(
          CallerAfterWalk(
            CallerAfterWalk(data, ResumeDateFields, "date"),
            ResumeNumberFields, "number"),
          ResumeObjectIdFields, "objectId"),
        ResumeArrayFields, "array")),
    clock)

(***************************************************************************)
(* ConvSpec: one call of one conversion function on a document, and a      *)
(* second call of the same function on what the first returned.            *)
(***************************************************************************)
PathFunctions == {"convertDates", "convertNumbers", "convertObjectIds", "ensureArrays"}
KindOf ==
  ("convertDates" :> "date") @@ ("convertNumbers" :> "number")
    @@ ("convertObjectIds" :> "objectId") @@ ("ensureArrays" :> "array")

\* The pre-save hook on a document whose projects are those of data.
SaveHookOn(data, clock) ==
  LET projects == Get(data, "projects") IN
  IF projects.t = "arr" /\ ScreenshotsThrow(projects) THEN Throw
  ELSE IF Present(data, "projects")
       THEN Put(data, "projects", PreSaveNormalizer([projects |-> projects], clock).projects)
       ELSE data

\* The update hook on getUpdate() = data (a replacement document) ...
UpdateHookOn(data, clock) ==
  IF PreUpdateThrows(data) THEN Throw ELSE PreUpdateHook(data, clock)

\* ... and on getUpdate() = {$set: data}: what $set holds afterwards.
UpdateHookOnSet(data, clock) ==
  LET update == Obj(("$set" :> data)) IN
  IF PreUpdateThrows(update) THEN Throw
  ELSE Get(PreUpdateHook(update, clock), "$set")

Apply(fn, fields, data, clock) ==
  CASE fn = "convertDates"         -> convertDates(data, fields)
    [] fn = "convertNumbers"       -> convertNumbers(data, fields)
    [] fn = "convertObjectIds"     -> convertObjectIds(data, fields)
    [] fn = "ensureArrays"         -> ensureArrays(data, fields)
    [] fn = "convertCoordinates"   -> convertCoordinates(data)
    [] fn = "convertScreenshots"   -> convertScreenshots(data, clock)
    [] fn = "convertResumeData"    -> convertResumeData(data, clock)
    [] fn = "preSave"              -> SaveHookOn(data, clock)
    [] fn = "preUpdate"            -> UpdateHookOn(data, clock)
    [] fn = "preUpdateSet"         -> UpdateHookOnSet(data, clock)

CallerAfter(fn, fields, data, clock) ==
  CASE fn \in PathFunctions        -> CallerAfterWalk(data, fields, KindOf[fn])
    [] fn = "convertCoordinates"   -> CallerAfterCoordinates(data)
    [] fn = "convertScreenshots"   -> CallerAfterScreenshots(data, clock)
    [] fn = "convertResumeData"    -> CallerAfterResumeData(data, clock)
    [] OTHER                       -> CallerAfterScreenshots(data, clock)

(***************************************************************************)
(* The documents ConvSpec draws from: a value at a declared path, a path   *)
(* cut short, several paths at once, projects with screenshots,            *)
(* coordinates.                                                            *)
(***************************************************************************)
MaxShots == 2   \* longest screenshots list drawn

Range(seq) == {seq[i] : i \in DOMAIN seq}
PathsOf(lists) == UNION {Range(l) : l \in lists}

\* No declared path has more than two segments.
DocAt(path, v) ==
  IF Len(path) = 1 THEN Obj((path[1] :> v))
  ELSE Obj((path[1] :> Obj((path[2] :> v))))

UpperHexId  == "507F1F77BCF86CD799439011"
TwelveChars == "abcdefghijkl"
NonHexId    == "zzzzzzzzzzzzzzzzzzzzzzzz"

DateValues ==
  {Str("2020-01-15"), Str("2021-06-30"), Str("notadate"), Str(""), Num(5), Null,
   Date(18276)}
NumberValues == {Str("3"), Str("3abc"), Str("x"), Str(""), Num(4), Null}
ObjectIdValues ==
  {Str(U1), Str(UpperHexId), Str(TwelveChars), Str(NonHexId), Str("zz"), Str(""),
   Oid(U1), Null}
ArrayValues ==
  {Str("x"), Str("notanarray"), Arr(<<Str("x")>>), Arr(<<>>), Null, Undef, Num(0),
   Str(""), Obj([gpa |-> Str("3")])}

\* What a path finds in place of the object it would descend into.
Blockers == {Str("s"), Null, Num(1), Arr(<<Obj([startDate |-> Str("2020-01-15")])>>)}

ValueDocs ==
  {DocAt(p, v) : p \in PathsOf(DateFieldLists), v \in DateValues}
    \cup {DocAt(p, v) : p \in PathsOf(NumberFieldLists), v \in NumberValues}
    \cup {DocAt(p, v) : p \in PathsOf(ObjectIdFieldLists), v \in ObjectIdValues}
    \cup {DocAt(p, v) : p \in PathsOf(ArrayFieldLists), v \in ArrayValues}

BlockedDocs ==
  {Obj((k :> b)) :
     k \in {"personalInfo", "education", "adminApproval", "rating"}, b \in Blockers}

SeveralPathsDocs ==
  { Obj([personalInfo |-> Obj([startDate |-> Str("2020-01-15")]),
         education |-> Str("notanarray"),
         user |-> Str(U1)]),
    Obj([startDate |-> Str("2020-01-15"),
         personalInfo |-> Str("s"),
         adminApproval |-> Obj([reviewedAt |-> Str("2021-06-30"),
                                reviewedBy |-> Str(U1)])]),
    Obj([education |-> Obj([startDate |-> Str("2020-01-15"), gpa |-> Str("3")]),
         version |-> Str("3abc")]),
    Obj([usageCount |-> Str("3"), rating |-> Null, createdBy |-> Str(TwelveChars)]),
    Obj([issueDate |-> Str("2020-01-15"), expiryDate |-> Str("notadate"),
         lastLogin |-> Num(5)]),
    Obj([education |-> Str("x"), skills |-> Arr(<<Str("x")>>), hobbies |-> Null]),
    Obj([usageCount |-> Str("x"),
         rating |-> Obj([average |-> Str("4"), count |-> Str("3abc")])]) }

ShotElements == {Str(ScreenshotUrl), Str(""), CanonicalShot, NoUrlShot}
ShotLists == UNION {[1..n -> ShotElements] : n \in 0..MaxShots}
ScreenshotDocs ==
  {Obj([projects |-> Arr(<<ProjectOf(shots)>>)]) : shots \in ShotLists}
    \cup { Obj([projects |-> Arr(<<ProjectOf(<<Str(ScreenshotUrl)>>),
                                   Obj([name |-> Str("q")]),
                                   ProjectOf(<<NoUrlShot, Str(ScreenshotUrl)>>)>>)]),
           Obj([projects |-> Str("p")]) }

CoordinateDocs ==
  { Obj([address |-> Obj([coordinates |-> Obj([lat |-> Str("1"), lng |-> Str("x")])])]),
    Obj([personalInfo |->
           Obj([address |-> Obj([coordinates |-> Obj([lat |-> Num(2), lng |-> Str("3")])])])]) }

Documents ==
  ValueDocs \cup BlockedDocs \cup SeveralPathsDocs \cup ScreenshotDocs \cup CoordinateDocs

(***************************************************************************)
(* ConvSpec: its initial states and its calls.                             *)
(***************************************************************************)
ConvInit ==
  /\ resumes = [id \in ResumeIds |-> NoDoc]
  /\ nextId = 1
  /\ now = 0
  /\ ops = 0
  /\ last = NoRequest
  /\ twelveByteIds \in BOOLEAN
  /\ users = NoUsers
  /\ reqs = NoRequests
  /\ mail = {}
  /\ \E d \in Documents :
       conv = [fn |-> "none", fields |-> <<>>, data |-> d, at |-> 0, calls |-> 0,
               result |-> Undef, after |-> d, again |-> Undef, againAt |-> 0]

\* result = fn(data), the caller keeping data.
Called(fn, fields) ==
  /\ conv' = [conv EXCEPT !.fn = fn, !.fields = fields, !.at = now, !.calls = 1,
                          !.result = Apply(fn, fields, conv.data, now),
                          !.after = CallerAfter(fn, fields, conv.data, now)]
  /\ UNCHANGED <<resumes, nextId, now, ops, last, twelveByteIds, users, reqs, mail>>

ConvertDatesCall(fields) ==
  /\ conv.calls = 0
  /\ Called("convertDates", fields)

ConvertNumbersCall(fields) ==
  /\ conv.calls = 0
  /\ Called("convertNumbers", fields)

ConvertObjectIdsCall(fields) ==
  /\ conv.calls = 0
  /\ Called("convertObjectIds", fields)

EnsureArraysCall(fields) ==
  /\ conv.calls = 0
  /\ Called("ensureArrays", fields)

ConvertCoordinatesCall ==
  /\ conv.calls = 0
  /\ Called("convertCoordinates", <<>>)

ConvertScreenshotsCall ==
  /\ conv.calls = 0
  /\ Called("convertScreenshots", <<>>)

ConvertResumeDataCall ==
  /\ conv.calls = 0
  /\ Called("convertResumeData", <<>>)

PreSaveHookCall ==
  /\ conv.calls = 0
  /\ Called("preSave", <<>>)

PreUpdateHookCall ==
  /\ conv.calls = 0
  /\ Called("preUpdate", <<>>)

PreUpdateHookSetCall ==
  /\ conv.calls = 0
  /\ Called("preUpdateSet", <<>>)

\* again = fn(result): the function on its own output, possibly later.
CallAgain ==
  /\ conv.calls = 1
  /\ conv.result # Throw
  /\ conv' = [conv EXCEPT !.calls = 2, !.againAt = now,
                          !.again = Apply(conv.fn, conv.fields, conv.result, now)]
  /\ UNCHANGED <<resumes, nextId, now, ops, last, twelveByteIds, users, reqs, mail>>

ConvNext ==
  \/ \E fields \in DateFieldLists : ConvertDatesCall(fields)
  \/ \E fields \in NumberFieldLists : ConvertNumbersCall(fields)
  \/ \E fields \in ObjectIdFieldLists : ConvertObjectIdsCall(fields)
  \/ \E fields \in ArrayFieldLists : EnsureArraysCall(fields)
  \/ ConvertCoordinatesCall
  \/ ConvertScreenshotsCall
  \/ ConvertResumeDataCall
  \/ PreSaveHookCall
  \/ PreUpdateHookCall
  \/ PreUpdateHookSetCall
  \/ CallAgain
  \/ Tick

ConvSpec == ConvInit /\ [][ConvNext]_vars

(***************************************************************************)
(* RaceSpec: two approve requests on their way at once.  A handler reads   *)
(* the resume (findById), and in a later step changes its copy and saves   *)
(* it; other requests are handled between the two steps.                   *)
(***************************************************************************)
Handlers == {"h1", "h2"}
Idle == [pc |-> "idle"]

\* Variant of the write: a save that matches the version it read as well.
SaveWriteVersioned(stored, doc, seen) ==
  IF ~stored.exists \/ stored.version # seen.version
  THEN [outcome |-> "error", doc |-> stored]
  ELSE [outcome |-> "ok", doc |-> doc]

\* What document.save() sends: updateOne({_id}, {$set: the paths modified
\* since the read, $push: the entries pushed}).  No other condition is part
\* of the filter; a document that is gone makes save() fail.
SaveWrite(stored, doc, seen) ==
  IF ~stored.exists THEN [outcome |-> "error", doc |-> stored]
  ELSE [outcome |-> "ok",
        doc |->
          [f \in DOMAIN stored |->
             IF f = "previousVersions"
             THEN stored.previousVersions
                    \o SubSeq(doc.previousVersions, Len(seen.previousVersions) + 1,
                              Len(doc.previousVersions))
             ELSE IF f = "adminApproval"
             THEN [k \in DOMAIN stored.adminApproval |->
                     IF doc.adminApproval[k] # seen.adminApproval[k]
                     THEN doc.adminApproval[k] ELSE stored.adminApproval[k]]
             ELSE IF doc[f] # seen[f] THEN doc[f] ELSE stored[f]]]

Answered(op, id, outcome) ==
  /\ ops' = ops + 1
  /\ last' = [op |-> op, id |-> id, outcome |-> outcome]

\* Resume.findById(req.params.id) of the approve handler.
ApproveFind(h, a, id, status, comments) ==
  /\ ops < MaxOps
  /\ reqs[h].pc # "loaded"
  /\ IF resumes[id].exists
     THEN /\ reqs' = [reqs EXCEPT ![h] =
                        [pc |-> "loaded", by |-> a, id |-> id, status |-> status,
                         comments |-> comments, seen |-> resumes[id]]]
          /\ UNCHANGED <<ops, last>>
     ELSE /\ UNCHANGED reqs
          /\ Answered("approve", id, "404")
  /\ UNCHANGED <<resumes, nextId, now, conv, twelveByteIds, users, mail>>

\* The rest of the handler: the approval fields set on the copy, save().
ApproveSave(h) ==
  /\ reqs[h].pc = "loaded"
  /\ LET r == reqs[h]
         doc == [r.seen EXCEPT
                   !.status = r.status,
                   !.adminApproval = [status |-> r.status, reviewedBy |-> r.by,
                                      reviewedAt |-> now, comments |-> r.comments]]
         saved == Save(doc, r.seen, FALSE, now)
         res == IF IsModified(doc, r.seen)
                THEN SaveWrite(resumes[r.id], saved, r.seen)
                ELSE [outcome |-> "ok", doc |-> resumes[r.id]]
     IN /\ resumes' = [resumes EXCEPT ![r.id] = res.doc]
        /\ reqs' = [reqs EXCEPT ![h] =
                      [r EXCEPT !.pc = "saved"] @@
                        [modified |-> IsModified(doc, r.seen), base |-> resumes[r.id],
                         wrote |-> res.doc, outcome |-> res.outcome]]
        /\ Answered("approve", r.id, res.outcome)
  /\ UNCHANGED <<nextId, now, conv, twelveByteIds, users, mail>>

\* The resume the requests are about: created by U1 before they start.
RaceInit ==
  /\ \E body \in {Obj([title |-> Str("A")]),
                   Obj([title |-> Str("A"), adminApproval |-> ApprovalInput])} :
       resumes = [id \in ResumeIds |->
                    IF id = 1 THEN ResumeCreate(Put(body, "user", Str(U1)), 0).doc
                    ELSE NoDoc]
  /\ nextId = 2
  /\ now = 0
  /\ ops = 0
  /\ last = NoRequest
  /\ conv = NoCall
  /\ twelveByteIds = FALSE   \* no identifier is parsed by these requests
  /\ users = NoUsers
  /\ reqs = [h \in Handlers |-> Idle]
  /\ mail = {}

RaceNext ==
  \/ \E h \in Handlers, a \in Admins, id \in ResumeIds, st \in ReviewStatuses,
        c \in ReviewComments : ApproveFind(h, a, id, st, c)
  \/ \E h \in Handlers : ApproveSave(h)
  \/ \E u \in Creators, id \in ResumeIds, body \in {Obj([title |-> Str("B")])} :
       UpdateResume(u, id, body)
  \/ Tick

RaceSpec == RaceInit /\ [][RaceNext]_vars

(***************************************************************************)
(* Accounts: the users collection and the gates of the admin router.       *)
(***************************************************************************)
S1 == "507f1f77bcf86cd79943901b"
SuperAdmins == {S1}
Accounts == Users \cup Admins \cup SuperAdmins

RoleEnum == {"user", "admin", "super_admin"}
NoUser == [exists |-> FALSE]
NoToken == "undefined"
NoExpire == -1

\* A stored account: the schema's defaults under the given role.
UserDefaults(role) ==
  [exists |-> TRUE, role |-> role, isActive |-> TRUE, isEmailVerified |-> FALSE,
   firstName |-> "F", password |-> "secret0",
   resetPasswordToken |-> NoToken, resetPasswordExpire |-> NoExpire,
   emailVerificationToken |-> NoToken, emailVerificationExpire |-> NoExpire]

RoleAtStart(u) ==
  IF u \in SuperAdmins THEN "super_admin" ELSE IF u \in Admins THEN "admin" ELSE "user"

\* auth: the bearer of a token of account u, as long as the account exists.
Authenticated(u) == users[u].exists
\* isAdmin and isSuperAdmin of middleware/auth.
IsAdmin(u) == users[u].exists /\ users[u].role \in {"admin", "super_admin"}
IsSuperAdmin(u) == users[u].exists /\ users[u].role = "super_admin"

\* The answer to a request made by account by.
AnsweredTo(by, op, id, outcome) ==
  /\ ops' = ops + 1
  /\ last' = [op |-> op, id |-> id, outcome |-> outcome, by |-> by]

NotInFlight(h) == reqs[h].pc \in {"idle", "done"}

(***************************************************************************)
(* AdminSpec: account deletion (three routes), role changes, and resume    *)
(* creation by the accounts concerned.  A deletion is two writes,          *)
(* Resume.deleteMany and then the removal of the account(s); other         *)
(* requests are handled between them.                                      *)
(***************************************************************************)
\* POST /api/resumes by an authenticated account.
AuthCreateResume(u, body) ==
  /\ Authenticated(u)
  /\ CreateResume(u, body)

\* DELETE /api/users/profile, up to and including Resume.deleteMany.
DeleteProfile(h, u) ==
  /\ ops < MaxOps
  /\ NotInFlight(h)
  /\ Authenticated(u)
  /\ resumes' = [id \in ResumeIds |->
                   IF resumes[id].exists /\ resumes[id].user = u THEN NoDoc
                   ELSE resumes[id]]
  /\ reqs' = [reqs EXCEPT ![h] = [pc |-> "cascaded", op |-> "deleteProfile",
                                  by |-> u, targets |-> {u}]]
  /\ UNCHANGED <<nextId, now, ops, last, conv, twelveByteIds, users, mail>>

\* DELETE /api/admin/users/:id, up to and including Resume.deleteMany.
AdminDeleteUser(h, a, id) ==
  /\ ops < MaxOps
  /\ NotInFlight(h)
  /\ Authenticated(a)
  /\ IF ~IsAdmin(a)
     THEN /\ AnsweredTo(a, "deleteUser", id, "403") /\ UNCHANGED <<resumes, reqs>>
     ELSE IF ~users[id].exists
     THEN /\ AnsweredTo(a, "deleteUser", id, "404") /\ UNCHANGED <<resumes, reqs>>
     ELSE IF users[id].role = "super_admin"
     THEN /\ AnsweredTo(a, "deleteUser", id, "403") /\ UNCHANGED <<resumes, reqs>>
     ELSE /\ resumes' = [r \in ResumeIds |->
                           IF resumes[r].exists /\ resumes[r].user = id THEN NoDoc
                           ELSE resumes[r]]
          /\ reqs' = [reqs EXCEPT ![h] = [pc |-> "cascaded", op |-> "deleteUser",
                                          by |-> a, targets |-> {id}]]
          /\ UNCHANGED <<ops, last>>
  /\ UNCHANGED <<nextId, now, conv, twelveByteIds, users, mail>>

\* POST /api/admin/users/bulk-delete, up to and including Resume.deleteMany.
BulkDeleteUsers(h, a, userIds) ==
  /\ ops < MaxOps
  /\ NotInFlight(h)
  /\ Authenticated(a)
  /\ IF ~IsAdmin(a)
     THEN /\ AnsweredTo(a, "bulkDelete", 0, "403") /\ UNCHANGED <<resumes, reqs>>
     ELSE IF userIds = {}
     THEN /\ AnsweredTo(a, "bulkDelete", 0, "400") /\ UNCHANGED <<resumes, reqs>>
     ELSE /\ resumes' = [r \in ResumeIds |->
                           IF resumes[r].exists /\ resumes[r].user \in userIds
                           THEN NoDoc ELSE resumes[r]]
          /\ reqs' = [reqs EXCEPT ![h] = [pc |-> "cascaded", op |-> "bulkDelete",
                                          by |-> a, targets |-> userIds]]
          /\ UNCHANGED <<ops, last>>
  /\ UNCHANGED <<nextId, now, conv, twelveByteIds, users, mail>>

\* The rest of a deletion: user.deleteOne() / User.deleteMany, the answer.
DeleteAccounts(h) ==
  /\ reqs[h].pc = "cascaded"
  /\ users' = [u \in DOMAIN users |-> IF u \in reqs[h].targets THEN NoUser ELSE users[u]]
  /\ reqs' = [reqs EXCEPT ![h] = [@ EXCEPT !.pc = "done"]]
  /\ AnsweredTo(reqs[h].by, reqs[h].op, 0, "ok")
  /\ UNCHANGED <<resumes, nextId, now, conv, twelveByteIds, mail>>

\* What findByIdAndUpdate(id, body) writes of body: the paths of the schema.
UserUpdate(user, body) ==
  [k \in DOMAIN user |-> IF k \in DOMAIN body THEN body[k] ELSE user[k]]

\* PUT /api/admin/users/:id
AdminUpdateUser(a, id, body) ==
  /\ ops < MaxOps
  /\ Authenticated(a)
  /\ IF ~IsAdmin(a)
     THEN /\ AnsweredTo(a, "updateUser", id, "403") /\ UNCHANGED users
     ELSE IF "role" \in DOMAIN body /\ body.role \notin RoleEnum
     THEN /\ AnsweredTo(a, "updateUser", id, "400") /\ UNCHANGED users
     ELSE IF ~users[id].exists
     THEN /\ AnsweredTo(a, "updateUser", id, "404") /\ UNCHANGED users
     ELSE /\ users' = [users EXCEPT ![id] = UserUpdate(@, body)]
          /\ AnsweredTo(a, "updateUser", id, "ok")
  /\ UNCHANGED <<resumes, nextId, now, conv, twelveByteIds, reqs, mail>>

\* PUT /api/admin/admins/:id/role
UpdateAdminRole(a, id, role) ==
  /\ ops < MaxOps
  /\ Authenticated(a)
  /\ IF ~IsAdmin(a) \/ ~IsSuperAdmin(a)
     THEN /\ AnsweredTo(a, "updateRole", id, "403") /\ UNCHANGED users
     ELSE IF role \notin RoleEnum
     THEN /\ AnsweredTo(a, "updateRole", id, "400") /\ UNCHANGED users
     ELSE IF ~users[id].exists
     THEN /\ AnsweredTo(a, "updateRole", id, "404") /\ UNCHANGED users
     ELSE /\ users' = [users EXCEPT ![id] = UserUpdate(@, [role |-> role])]
          /\ AnsweredTo(a, "updateRole", id, "ok")
  /\ UNCHANGED <<resumes, nextId, now, conv, twelveByteIds, reqs, mail>>

\* fieldsToUpdate of PUT /api/users/profile: the fields the handler copies.
ProfileFields == {"firstName"}
FieldsToUpdate(body) == [k \in DOMAIN body \cap ProfileFields |-> body[k]]

\* PUT /api/users/profile
UpdateProfile(u, body) ==
  /\ ops < MaxOps
  /\ Authenticated(u)
  /\ users' = [users EXCEPT ![u] = UserUpdate(@, FieldsToUpdate(body))]
  /\ AnsweredTo(u, "updateProfile", u, "ok")
  /\ UNCHANGED <<resumes, nextId, now, conv, twelveByteIds, reqs, mail>>

\* The requests AdminSpec draws from.
AdminAccounts == Creators \cup Admins \cup SuperAdmins
AdminUpdateBodies == {[role |-> "super_admin"], [role |-> "root"]}
ProfileBodies == {[firstName |-> "G"], [firstName |-> "G", role |-> "admin"]}
BulkTargets == {{}, {U1}, {S1}}

AdminInit ==
  /\ resumes = [id \in ResumeIds |-> NoDoc]
  /\ nextId = 1
  /\ now = 0
  /\ ops = 0
  /\ last = NoRequest
  /\ conv = NoCall
  /\ twelveByteIds = FALSE   \* no identifier is parsed by these requests
  /\ users = [u \in Accounts |->
                IF u \in AdminAccounts THEN UserDefaults(RoleAtStart(u)) ELSE NoUser]
  /\ reqs = [h \in Handlers |-> Idle]
  /\ mail = {}

AdminNext ==
  \/ \E u \in Creators, body \in {Obj([title |-> Str("A")])} : AuthCreateResume(u, body)
  \/ \E u \in Creators : DeleteProfile("h1", u)
  \/ \E a \in AdminAccounts, id \in {U1, S1} : AdminDeleteUser("h1", a, id)
  \/ \E a \in AdminAccounts, ids \in BulkTargets : BulkDeleteUsers("h1", a, ids)
  \/ DeleteAccounts("h1")
  \/ \E a \in AdminAccounts, id \in {U1, U2}, body \in AdminUpdateBodies :
       AdminUpdateUser(a, id, body)
  \/ \E a \in AdminAccounts, id \in {A1, U2}, role \in {"user", "root"} :
       UpdateAdminRole(a, id, role)
  \/ \E u \in Creators, body \in ProfileBodies : UpdateProfile(u, body)

AdminSpec == AdminInit /\ [][AdminNext]_vars

(***************************************************************************)
(* AuthSpec: login, the password-reset and e-mail verification tokens,     *)
(* deactivation by an admin, and the passing of time.                      *)
(***************************************************************************)
MaxWaits == 2   \* how many times the model lets a token lifetime pass

ResetPasswordTtl == 600000        \* 10 * 60 * 1000
EmailVerificationTtl == 86400000  \* 24 * 60 * 60 * 1000

\* crypto.createHash('sha256').update(token).digest('hex')
Sha256(token) == "sha256:" \o token
\* bcrypt.hash / bcrypt.compare
Bcrypt(password) == "bcrypt:" \o password
matchPassword(user, enteredPassword) == user.password = Bcrypt(enteredPassword)

MinPasswordLen == 6

\* crypto.randomBytes(20).toString('hex'): a token not drawn before.
Tokens == {"t1", "t2"}
Drawn == {m.token : m \in mail}

\* userSchema.methods.getResetPasswordToken / getEmailVerificationToken
getResetPasswordToken(user, resetToken, clock) ==
  [user EXCEPT !.resetPasswordToken = Sha256(resetToken),
               !.resetPasswordExpire = clock + ResetPasswordTtl]
getEmailVerificationToken(user, verificationToken, clock) ==
  [user EXCEPT !.emailVerificationToken = Sha256(verificationToken),
               !.emailVerificationExpire = clock + EmailVerificationTtl]

\* User.findOne({resetPasswordToken, resetPasswordExpire: {$gt: Date.now()}})
FindByResetToken(token, clock) ==
  {u \in DOMAIN users :
     /\ users[u].exists
     /\ users[u].resetPasswordToken = Sha256(token)
     /\ users[u].resetPasswordExpire > clock}
FindByVerificationToken(token, clock) ==
  {u \in DOMAIN users :
     /\ users[u].exists
     /\ users[u].emailVerificationToken = Sha256(token)
     /\ users[u].emailVerificationExpire > clock}

\* Variant of the reset: the token stays on the account.
AfterResetKeepsToken(user, password) ==
  [user EXCEPT !.password = Bcrypt(password)]

\* The account as the reset handler saves it.
AfterReset(user, password) ==
  [user EXCEPT !.password = Bcrypt(password),
               !.resetPasswordToken = NoToken,
               !.resetPasswordExpire = NoExpire]

\* The account as a verify handler saves it.
AfterVerification(user) ==
  [user EXCEPT !.isEmailVerified = TRUE,
               !.emailVerificationToken = NoToken,
               !.emailVerificationExpire = NoExpire]

\* The link of the given kind and token has been followed with success.
Followed(kind, token) ==
  {IF m.kind = kind /\ m.token = token THEN [m EXCEPT !.used = TRUE] ELSE m : m \in mail}

AnsweredWith(token, op, id, outcome) ==
  /\ ops' = ops + 1
  /\ last' = [op |-> op, id |-> id, outcome |-> outcome, by |-> id, token |-> token]

\* POST /api/auth/login; "token": sendTokenResponse(user, 200, res).
Login(u, password) ==
  /\ ops < MaxOps
  /\ IF ~users[u].exists THEN AnsweredWith("", "login", u, "401 Invalid credentials")
     ELSE IF ~matchPassword(users[u], password)
     THEN AnsweredWith("", "login", u, "401 Invalid credentials")
     ELSE IF ~users[u].isActive
     THEN AnsweredWith("", "login", u, "401 Account is deactivated")
     ELSE AnsweredWith("", "login", u, "token")
  /\ UNCHANGED <<resumes, nextId, now, conv, twelveByteIds, users, reqs, mail>>

\* POST /api/auth/forgotpassword; delivered: the e-mail went out (or no
\* e-mail service is configured and the token is in the answer).
ForgotPassword(u, resetToken, delivered) ==
  /\ ops < MaxOps
  /\ resetToken \notin Drawn
  /\ IF ~users[u].exists
     THEN /\ AnsweredWith("", "forgot", u, "404")
          /\ UNCHANGED <<users, mail>>
     ELSE LET user == getResetPasswordToken(users[u], resetToken, now) IN
          IF delivered
          THEN /\ users' = [users EXCEPT ![u] = user]
               /\ mail' = mail \cup {[kind |-> "reset", to |-> u, token |-> resetToken,
                                       at |-> now, used |-> FALSE]}
               /\ AnsweredWith("", "forgot", u, "ok")
          ELSE /\ users' = [users EXCEPT ![u] =
                               [user EXCEPT !.resetPasswordToken = NoToken,
                                            !.resetPasswordExpire = NoExpire]]
               /\ mail' = mail \cup {[kind |-> "lost", to |-> u, token |-> resetToken,
                                       at |-> now, used |-> FALSE]}
               /\ AnsweredWith("", "forgot", u, "500")
  /\ UNCHANGED <<resumes, nextId, now, conv, twelveByteIds, reqs>>

\* PUT /api/auth/resetpassword/:resettoken
ResetPassword(resettoken, password) ==
  /\ ops < MaxOps
  /\ IF Len(password) < MinPasswordLen
     THEN /\ AnsweredWith(resettoken, "reset", "", "400 validation")
          /\ UNCHANGED <<users, mail>>
     ELSE IF FindByResetToken(resettoken, now) = {}
     THEN /\ AnsweredWith(resettoken, "reset", "", "400 Invalid or expired")
          /\ UNCHANGED <<users, mail>>
     ELSE \E u \in FindByResetToken(resettoken, now) :
            /\ users' = [users EXCEPT ![u] = AfterReset(@, password)]
            /\ mail' = Followed("reset", resettoken)
            /\ AnsweredWith(resettoken, "reset", u, "token")
  /\ UNCHANGED <<resumes, nextId, now, conv, twelveByteIds, reqs>>

\* POST /api/auth/resend-verification
ResendVerification(u, verificationToken) ==
  /\ ops < MaxOps
  /\ verificationToken \notin Drawn
  /\ IF ~users[u].exists
     THEN /\ AnsweredWith("", "resend", u, "404")
          /\ UNCHANGED <<users, mail>>
     ELSE IF users[u].isEmailVerified
     THEN /\ AnsweredWith("", "resend", u, "400")
          /\ UNCHANGED <<users, mail>>
     ELSE /\ users' = [users EXCEPT ![u] =
                          getEmailVerificationToken(@, verificationToken, now)]
          /\ mail' = mail \cup {[kind |-> "verify", to |-> u,
                                  token |-> verificationToken,
                                  at |-> now, used |-> FALSE]}
          /\ AnsweredWith("", "resend", u, "ok")
  /\ UNCHANGED <<resumes, nextId, now, conv, twelveByteIds, reqs>>

\* GET /api/auth/verify-email/:token and GET /api/auth/verify/:token
VerifyEmail(token) ==
  /\ ops < MaxOps
  /\ IF FindByVerificationToken(token, now) = {}
     THEN /\ AnsweredWith(token, "verify", "", "400 Invalid or expired")
          /\ UNCHANGED <<users, mail>>
     ELSE \E u \in FindByVerificationToken(token, now) :
            /\ users' = [users EXCEPT ![u] = AfterVerification(@)]
            /\ mail' = Followed("verify", token)
            /\ AnsweredWith(token, "verify", u, "ok")
  /\ UNCHANGED <<resumes, nextId, now, conv, twelveByteIds, reqs>>

\* PUT /api/admin/users/:id {isActive: ...} by an admin.
SetActive(a, id, isActive) ==
  /\ users[id].exists
  /\ users[id].isActive # isActive
  /\ AdminUpdateUser(a, id, [isActive |-> isActive])

\* The lifetime of a reset token, or of a verification token, passes.
Waits(clock) ==
  (clock \div EmailVerificationTtl) + ((clock % EmailVerificationTtl) \div ResetPasswordTtl)

Wait(d) ==
  /\ Waits(now) < MaxWaits
  /\ now' = now + d
  /\ UNCHANGED <<resumes, nextId, ops, last, conv, twelveByteIds, users, reqs, mail>>

AuthInit ==
  /\ resumes = [id \in ResumeIds |-> NoDoc]
  /\ nextId = 1
  /\ now = 0
  /\ ops = 0
  /\ last = NoRequest
  /\ conv = NoCall
  /\ twelveByteIds = FALSE   \* no identifier is parsed by these requests
  /\ users = [u \in Accounts |->
                IF u \in Creators \cup Admins
                THEN [UserDefaults(RoleAtStart(u)) EXCEPT !.password = Bcrypt("secret0")]
                ELSE NoUser]
  /\ reqs = [h \in Handlers |-> Idle]
  /\ mail = {}

AuthNext ==
  \/ \E u \in Creators, password \in {"secret0", "secret1"} : Login(u, password)
  \/ \E u \in Users, t \in Tokens, delivered \in BOOLEAN : ForgotPassword(u, t, delivered)
  \/ \E t \in Tokens, password \in {"secret1", "abc"} : ResetPassword(t, password)
  \/ \E u \in Users, t \in Tokens : ResendVerification(u, t)
  \/ \E t \in Tokens : VerifyEmail(t)
  \/ \E a \in Admins, id \in Creators, b \in BOOLEAN : SetActive(a, id, b)
  \/ \E d \in {ResetPasswordTtl, EmailVerificationTtl} : Wait(d)

AuthSpec == AuthInit /\ [][AuthNext]_vars

(***************************************************************************)
(* AccessSpec: the routes of one resume (read, update, delete, duplicate,  *)
(* export, PDF) as requested by its owner, by another user and by an       *)
(* admin.                                                                  *)
(***************************************************************************)
\* Variant of the test: whoever asks passes for the owner.
OwnsAnyone(u, r) == TRUE

\* resume.user.toString() === req.user.id
Owns(u, r) == r.user = u

\* The answer of a read: what it discloses of the resume, if anything.
Disclosed(by, op, id, outcome, sent) ==
  /\ ops' = ops + 1
  /\ last' = [op |-> op, id |-> id, outcome |-> outcome, by |-> by, sent |-> sent]
  /\ UNCHANGED <<resumes, nextId, now, conv, twelveByteIds, users, reqs, mail>>

\* The routes that test the owner alone.
OwnerRead(op, u, id) ==
  IF ~resumes[id].exists THEN Disclosed(u, op, id, "404", NoDoc)
  ELSE IF ~Owns(u, resumes[id]) THEN Disclosed(u, op, id, "401", NoDoc)
  ELSE Disclosed(u, op, id, "ok", resumes[id])

\* The routes that populate the owner and let the role admin through.
RenderRead(op, refusal, u, id) ==
  IF ~resumes[id].exists THEN Disclosed(u, op, id, "404", NoDoc)
  ELSE IF ~users[resumes[id].user].exists THEN Disclosed(u, op, id, "500", NoDoc)
  ELSE IF ~Owns(u, resumes[id]) /\ users[u].role # "admin"
  THEN Disclosed(u, op, id, refusal, NoDoc)
  ELSE Disclosed(u, op, id, "ok", resumes[id])

\* GET /api/resumes/:id
ReadResume(u, id) ==
  /\ ops < MaxOps
  /\ Authenticated(u)
  /\ OwnerRead("read", u, id)

\* GET /api/resumes/:id/export/csv
ExportCsv(u, id) ==
  /\ ops < MaxOps
  /\ Authenticated(u)
  /\ OwnerRead("csv", u, id)

\* GET /api/resumes/:id/export/json
ExportJson(u, id) ==
  /\ ops < MaxOps
  /\ Authenticated(u)
  /\ OwnerRead("json", u, id)

\* GET /api/resumes/:id/pdf
GetPdf(u, id) ==
  /\ ops < MaxOps
  /\ Authenticated(u)
  /\ RenderRead("pdf", "403", u, id)

\* POST /api/resumes/:id/generate
GenerateResume(u, id) ==
  /\ ops < MaxOps
  /\ Authenticated(u)
  /\ RenderRead("generate", "401", u, id)

\* A title of 95 characters: its copy's title would have 102.
LongTitle ==
  "xxxxxxxxxxxxxxxxxxxxxxxxxxxxxxxxxxxxxxxxxxxxxxxxxxxxxxxxxxxxxxxxxxxxxxxxxxxxxxxxxxxxxxxxxxxxxxx"

AccessInit ==
  /\ resumes = [id \in ResumeIds |-> NoDoc]
  /\ nextId = 1
  /\ now = 0
  /\ ops = 0
  /\ last = NoRequest
  /\ conv = NoCall
  /\ twelveByteIds = FALSE   \* the bodies drawn hold no identifier
  /\ users = [u \in Accounts |->
                IF u \in Users \cup Admins THEN UserDefaults(RoleAtStart(u)) ELSE NoUser]
  /\ reqs = [h \in Handlers |-> Idle]
  /\ mail = {}

AccessNext ==
  \/ \E u \in Creators, t \in {"A", LongTitle} : AuthCreateResume(u, Obj([title |-> Str(t)]))
  \/ \E u \in Users, id \in ResumeIds : UpdateResume(u, id, Obj([title |-> Str("B")]))
  \/ \E a \in Admins, id \in ResumeIds : ApproveResume(a, id, "approved", "fix")
  \/ \E u \in Users, id \in ResumeIds : DeleteResume(u, id)
  \/ \E u \in Users, id \in ResumeIds : DuplicateResume(u, id)
  \/ \E u \in Users, id \in ResumeIds : ReadResume(u, id)
  \/ \E u \in Users, id \in ResumeIds : ExportCsv(u, id)
  \/ \E u \in Users, id \in ResumeIds : ExportJson(u, id)
  \/ \E u \in Users \cup Admins, id \in ResumeIds : GetPdf(u, id)
  \/ \E u \in Users \cup Admins, id \in ResumeIds : GenerateResume(u, id)

AccessSpec == AccessInit /\ [][AccessNext]_vars

(***************************************************************************)
(* RouteSpec: the two routers whose '/:id' route is registered before a    *)
(* static one.  A router hands a request to the first route, in the order  *)
(* of registration, whose method and path pattern match.                   *)
(***************************************************************************)
Route(method, path) == [method |-> method, path |-> path]

\* routes/resumes.js, in the order of its router.<method>(...) calls.
ResumeRoutes ==
  << Route("GET", <<>>),
     Route("GET", <<":id">>),
     Route("POST", <<>>),
     Route("PUT", <<":id">>),
     Route("DELETE", <<":id">>),
     Route("POST", <<":id", "duplicate">>),
     Route("GET", <<"templates">>),
     Route("POST", <<"upload-screenshot">>),
     Route("POST", <<":id", "generate">>),
     Route("GET", <<":id", "pdf">>),
     Route("GET", <<":id", "pdf", "admin">>),
     Route("GET", <<":id", "export", "csv">>),
     Route("GET", <<":id", "export", "json">>),
     Route("GET", <<"export", "csv">>),
     Route("GET", <<"export", "json">>) >>

\* routes/templates.js, likewise.
TemplateRoutes ==
  << Route("GET", <<>>),
     Route("GET", <<"popular">>),
     Route("GET", <<"category", ":category">>),
     Route("GET", <<":id">>),
     Route("POST", <<>>),
     Route("PUT", <<":id">>),
     Route("DELETE", <<":id">>),
     Route("POST", <<":id", "rate">>),
     Route("GET", <<"categories">>) >>

Routers == [resumes |-> ResumeRoutes, templates |-> TemplateRoutes]

\* A segment of a pattern that names a parameter.
IsParam(segment) == Len(segment) > 0 /\ SubSeq(segment, 1, 1) = ":"

\* The pattern matches the path, segment by segment.
PathMatches(pattern, path) ==
  /\ Len(pattern) = Len(path)
  /\ \A i \in 1..Len(path) : IsParam(pattern[i]) \/ pattern[i] = path[i]

\* The route that handles the request: the first that matches, 0 for none.
Dispatch(routes, method, path) ==
  LET matching == {i \in 1..Len(routes) :
                     routes[i].method = method /\ PathMatches(routes[i].path, path)}
  IN  IF matching = {} THEN 0
      ELSE CHOOSE i \in matching : \A j \in matching : i <= j

\* A request to /api/resumes/<path> or /api/templates/<path>.
HandleRequest(router, method, path) ==
  /\ ops < MaxOps
  /\ ops' = ops + 1
  /\ last' = [op |-> "route", id |-> Dispatch(Routers[router], method, path),
              outcome |-> IF Dispatch(Routers[router], method, path) = 0
                          THEN "404" ELSE "handled",
              router |-> router, method |-> method, path |-> path]
  /\ UNCHANGED <<resumes, nextId, now, conv, twelveByteIds, users, reqs, mail>>

Methods == {"GET", "POST", "PUT", "DELETE"}
RequestPaths ==
  { <<>>, <<"templates">>, <<"categories">>, <<"popular">>, <<"upload-screenshot">>,
    <<"export", "csv">>, <<"export", "json">>, <<"category", "tech">>,
    <<U1>>, <<U1, "pdf">>, <<U1, "pdf", "admin">>, <<U1, "export", "csv">>,
    <<U1, "export", "json">>, <<U1, "duplicate">>, <<U1, "generate">>, <<U1, "rate">> }

RouteInit ==
  /\ resumes = [id \in ResumeIds |-> NoDoc]
  /\ nextId = 1
  /\ now = 0
  /\ ops = 0
  /\ last = NoRequest
  /\ conv = NoCall
  /\ twelveByteIds \in BOOLEAN
  /\ users = NoUsers
  /\ reqs = NoRequests
  /\ mail = {}

RouteNext ==
  \E router \in DOMAIN Routers, method \in Methods, path \in RequestPaths :
    HandleRequest(router, method, path)

RouteSpec == RouteInit /\ [][RouteNext]_vars

(***************************************************************************)
(* Properties of the version history (Spec).                               *)
(***************************************************************************)
\* The request just handled was a successful one of kind op on resume id.
Handles(op, id) ==
  /\ ops' = ops + 1
  /\ last'.op = op
  /\ last'.id = id
  /\ last'.outcome # "401"
  /\ last'.outcome # "error"

VersionTags(r) == [i \in 1..Len(r.previousVersions) |-> r.previousVersions[i].version]
SnapshotTitles(r) ==
  [i \in 1..Len(r.previousVersions) |-> Get(r.previousVersions[i].data, "title")]

IsPrefix(h, g) == Len(h) <= Len(g) /\ \A i \in 1..Len(h) : g[i] = h[i]

\* C1: on a newly created resume titled "A" (version 1, no history), the
\* update of the title to "B" gives version 2 and one history entry tagged 1
\* holding title "A"; the next update, to "C", gives version 3 and entries
\* tagged 1, 2 holding titles "A", "B".
C1_TitleUpdatesAreVersioned ==
  [][\A id \in ResumeIds :
       /\ ( /\ Handles("update", id)
            /\ resumes[id].title = "A" /\ resumes'[id].title = "B"
            /\ resumes[id].version = 1 /\ resumes[id].previousVersions = <<>> )
          => /\ resumes'[id].version = 2
             /\ VersionTags(resumes'[id]) = <<Num(1)>>
             /\ SnapshotTitles(resumes'[id]) = <<Str("A")>>
       /\ ( /\ Handles("update", id)
            /\ resumes[id].title = "B" /\ resumes'[id].title = "C"
            /\ resumes[id].version = 2
            /\ VersionTags(resumes[id]) = <<Num(1)>> )
          => /\ resumes'[id].version = 3
             /\ VersionTags(resumes'[id]) = <<Num(1), Num(2)>>
             /\ SnapshotTitles(resumes'[id]) = <<Str("A"), Str("B")>>
    ]_vars

\* C2: every request that changes a stored resume (the owner's update, the
\* admin's approve / reject) appends exactly one snapshot and adds exactly 1
\* to version.
C2_EveryMutationSnapshots ==
  [][\A id \in ResumeIds :
       ( /\ Handles("update", id) \/ Handles("approve", id)
         /\ resumes[id].exists /\ resumes'[id].exists
         /\ resumes'[id] # resumes[id] )
       => /\ Len(resumes'[id].previousVersions) = Len(resumes[id].previousVersions) + 1
          /\ resumes'[id].version = resumes[id].version + 1
    ]_vars

\* C3: every stored resume has version = Len(previousVersions) + 1.
C3_VersionCountsHistory ==
  \A id \in ResumeIds :
    resumes[id].exists
      => resumes[id].version = Len(resumes[id].previousVersions) + 1

\* C4: the version tags of previousVersions increase strictly along the
\* list, and an appended entry is tagged with the version the document had
\* just before the request that appended it.
StrictlyIncreasingTags(r) ==
  \A i, j \in 1..Len(r.previousVersions) :
    i < j => /\ r.previousVersions[i].version.t = "num"
             /\ r.previousVersions[j].version.t = "num"
             /\ r.previousVersions[i].version.n < r.previousVersions[j].version.n

C4_TagsIncreaseAndMatch ==
  /\ [](\A id \in ResumeIds : resumes[id].exists => StrictlyIncreasingTags(resumes[id]))
  /\ [][\A id \in ResumeIds :
          ( /\ resumes[id].exists /\ resumes'[id].exists
            /\ Len(resumes'[id].previousVersions) = Len(resumes[id].previousVersions) + 1
            /\ IsPrefix(resumes[id].previousVersions, resumes'[id].previousVersions) )
          => resumes'[id].previousVersions[Len(resumes'[id].previousVersions)].version
               = Num(resumes[id].version)
       ]_vars

\* C5: a resume just created (POST with any body, or duplicate) is stored
\* with version 1 and an empty previousVersions.
C5_CreatedAtVersionOne ==
  (last.op \in {"create", "duplicate"} /\ last.outcome = "ok")
    => /\ resumes[last.id].version = 1
       /\ resumes[last.id].previousVersions = <<>>

\* C6: a save of an existing resume on which no field was modified leaves
\* version and previousVersions as they were.
SameFields(r, q) ==
  /\ r.user = q.user /\ r.title = q.title /\ r.status = q.status
  /\ r.adminApproval = q.adminApproval /\ r.projects = q.projects

C6_UnmodifiedSaveKeepsVersion ==
  [][\A id \in ResumeIds :
       ( /\ Handles("approve", id)
         /\ SameFields(resumes[id], resumes'[id]) )
       => /\ resumes'[id].version = resumes[id].version
          /\ resumes'[id].previousVersions = resumes[id].previousVersions
    ]_vars

\* The save of an approve that assigned the values already stored.
C6_Witness ==
  /\ last.op = "approve" /\ last.outcome = "unmodified"
  /\ resumes[last.id].adminApproval.reviewedAt = now
  /\ resumes[last.id].previousVersions # <<>>

\* C7: previousVersions is append-only: while a resume exists, the history
\* of one state is a prefix of the history of the next.
C7_HistoryAppendOnly ==
  [][\A id \in ResumeIds :
       (resumes[id].exists /\ resumes'[id].exists)
         => IsPrefix(resumes[id].previousVersions, resumes'[id].previousVersions)
    ]_vars

\* C8: the user (owner) of a stored resume never changes.
C8_OwnerNeverChanges ==
  [][\A id \in ResumeIds :
       (resumes[id].exists /\ resumes'[id].exists)
         => resumes'[id].user = resumes[id].user
    ]_vars

\* C9: a request of a user who is no admin (create, update) neither sets nor
\* alters adminApproval: an existing resume keeps it, a new one has the
\* defaults.
C9_ApprovalOnlyByAdmin ==
  [][(ops' = ops + 1 /\ last'.op \in {"create", "update"})
       => \A id \in ResumeIds :
            resumes'[id].exists
              => resumes'[id].adminApproval
                   = IF resumes[id].exists THEN resumes[id].adminApproval
                     ELSE SchemaDefaults("").adminApproval
    ]_vars

\* C10: no stored resume holds a bare string among the screenshots of a
\* project.
StoredScreenshots(r) ==
  UNION { { Get(r.projects.a[i], "screenshots").a[j] :
              j \in 1..Len(Get(r.projects.a[i], "screenshots").a) } :
          i \in 1..Len(r.projects.a) }

C10_NoStringScreenshotStored ==
  \A id \in ResumeIds :
    resumes[id].exists => \A shot \in StoredScreenshots(resumes[id]) : shot.t # "str"

\* A string element of a request was stored as {url, caption: "", uploadedAt}.
C10_Witness ==
  \E id \in ResumeIds :
    /\ resumes[id].exists
    /\ last.op \in {"create", "update"} /\ last.id = id /\ last.outcome = "ok"
    /\ \E shot \in StoredScreenshots(resumes[id]) :
         /\ Get(shot, "url") = Str(ScreenshotUrl)
         /\ Get(shot, "caption") = Str("")
         /\ Get(shot, "uploadedAt") = Date(now)

(***************************************************************************)
(* Properties of the screenshot normaliser (ConvSpec).                     *)
(***************************************************************************)
ProjectsOf(doc) == Get(doc, "projects")
ShotsAt(doc, i) == Get(ProjectsOf(doc).a[i], "screenshots")
HasProjects(doc) == ProjectsOf(doc).t = "arr"
HasShotsAt(doc, i) == ShotsAt(doc, i).t = "arr"

\* C11: normalising a normalised screenshots list gives the same list,
\* element for element, the uploadedAt values of the first pass included.
C11_NormalizeIdempotent ==
  (conv.fn = "convertScreenshots" /\ conv.calls = 2) => conv.again = conv.result

\* A second pass, made later than the first, over a list that held a string.
C11_Witness ==
  /\ conv.fn = "convertScreenshots" /\ conv.calls = 2
  /\ conv.againAt > conv.at
  /\ HasProjects(conv.data)
  /\ \E i \in 1..Len(ProjectsOf(conv.data).a) :
       /\ HasShotsAt(conv.data, i)
       /\ \E j \in 1..Len(ShotsAt(conv.data, i).a) :
            /\ ShotsAt(conv.data, i).a[j] = Str(ScreenshotUrl)
            /\ Get(ShotsAt(conv.again, i).a[j], "uploadedAt") = Date(conv.at)

\* C12: element by element, normalisation keeps a mapping with a non-empty
\* url, turns a string s into {url: s, caption: "", uploadedAt: now} and
\* keeps a mapping without url; the list keeps its length and its order.
C12_ElementMap ==
  (conv.fn = "convertScreenshots" /\ conv.calls >= 1 /\ HasProjects(conv.data))
    => /\ HasProjects(conv.result)
       /\ Len(ProjectsOf(conv.result).a) = Len(ProjectsOf(conv.data).a)
       /\ \A i \in 1..Len(ProjectsOf(conv.data).a) :
            HasShotsAt(conv.data, i)
              => /\ HasShotsAt(conv.result, i)
                 /\ Len(ShotsAt(conv.result, i).a) = Len(ShotsAt(conv.data, i).a)
                 /\ \A j \in 1..Len(ShotsAt(conv.data, i).a) :
                      LET e == ShotsAt(conv.data, i).a[j]
                          r == ShotsAt(conv.result, i).a[j]
                      IN /\ (e.t = "obj" /\ HasKey(e, "url") /\ Get(e, "url") # Str(""))
                              => r = e
                         /\ e.t = "str"
                              => r = Obj([url |-> e, caption |-> Str(""),
                                          uploadedAt |-> Date(conv.at)])
                         /\ (e.t = "obj" /\ ~HasKey(e, "url")) => r = e

\* A list of a mapping without url followed by a string, after the call.
C12_Witness ==
  /\ conv.fn = "convertScreenshots" /\ conv.calls = 1 /\ conv.at = now
  /\ HasProjects(conv.data)
  /\ \E i \in 1..Len(ProjectsOf(conv.data).a) :
       /\ ShotsAt(conv.data, i) = Arr(<<NoUrlShot, Str(ScreenshotUrl)>>)
       /\ ShotsAt(conv.result, i).a[1] = NoUrlShot
       /\ Get(ShotsAt(conv.result, i).a[2], "url") = Str(ScreenshotUrl)

RECURSIVE ValueAt(_, _)
ValueAt(doc, path) ==
  IF Len(path) = 0 THEN doc ELSE ValueAt(Get(doc, path[1]), Tail(path))

\* Some segment before the last is missing or holds no object.
Blocked(doc, path) ==
  \E k \in 1..(Len(path) - 1) :
    LET v == ValueAt(doc, SubSeq(path, 1, k)) IN ~(Truthy(v) /\ TypeofObject(v))

\* C14: in each of the four coercions, a path with a missing or non-object
\* intermediate segment raises nothing and leaves the document as it was
\* there, and every other path of the list is still coerced.
C14_BlockedPathOnly ==
  (conv.fn \in PathFunctions /\ conv.calls >= 1)
    => /\ conv.result # Throw
       /\ \A p \in Range(conv.fields) :
            IF Blocked(conv.data, p)
            THEN Get(conv.result, p[1]) = Get(conv.data, p[1])
            ELSE ValueAt(conv.result, p)
                   = Coerce(KindOf[conv.fn], ValueAt(conv.data, p))

\* Dates: a one-segment path, a path cut short by a string, and a path after
\* it, the first and the last converted.
C14_Witness ==
  /\ conv.fn = "convertDates" /\ conv.calls = 1
  /\ conv.fields = ResumeDateFields
  /\ Get(conv.data, "personalInfo") = Str("s")
  /\ Get(conv.result, "personalInfo") = Str("s")
  /\ Get(conv.data, "startDate") = Str("2020-01-15")
  /\ Get(conv.result, "startDate") = Date(18276)
  /\ ValueAt(conv.data, <<"adminApproval", "reviewedAt">>) = Str("2021-06-30")
  /\ ValueAt(conv.result, <<"adminApproval", "reviewedAt">>) = Date(18808)

Digits == {"0", "1", "2", "3", "4", "5", "6", "7", "8", "9"}
IsNumericString(s) == Len(s) > 0 /\ \A i \in 1..Len(s) : SubSeq(s, i, i) \in Digits

\* C16: at every declared number path, a numeric string n is replaced by
\* parseFloat(n) and a non-numeric string is left as it is.
C16_NumberPaths ==
  (conv.fn = "convertNumbers" /\ conv.calls >= 1)
    => \A p \in Range(conv.fields) :
         LET v == ValueAt(conv.data, p)
             r == ValueAt(conv.result, p)
         IN v.t = "str"
              => IF IsNumericString(v.s) THEN r = ParseFloat(v.s) ELSE r = v

\* C17: at every declared identifier path, a string of 24 hexadecimal
\* characters is replaced by the identifier of the same bytes, and any other
\* string is left as it is.
C17_IdentifierPaths ==
  (conv.fn = "convertObjectIds" /\ conv.calls >= 1)
    => \A p \in Range(conv.fields) :
         LET v == ValueAt(conv.data, p)
             r == ValueAt(conv.result, p)
         IN v.t = "str"
              => IF Len(v.s) = ObjectIdHexLen /\ IsHexString(v.s)
                 THEN r = Oid(LowerHex(v.s))
                 ELSE r = v

\* C18: at every declared array path, a truthy value that is no array is
\* replaced by the empty array, an array is kept with its elements, and a
\* falsy value is kept.
C18_ArrayPaths ==
  (conv.fn = "ensureArrays" /\ conv.calls >= 1)
    => \A p \in Range(conv.fields) :
         LET v == ValueAt(conv.data, p)
             r == ValueAt(conv.result, p)
         IN /\ (Truthy(v) /\ v.t # "arr") => r = Arr(<<>>)
            /\ v.t = "arr" => r = v
            /\ ~Truthy(v) => r = v

\* One call that met "x", ["x"] and null.
C18_Witness ==
  /\ conv.fn = "ensureArrays" /\ conv.calls = 1
  /\ Get(conv.data, "education") = Str("x")
  /\ Get(conv.result, "education") = Arr(<<>>)
  /\ Get(conv.data, "skills") = Arr(<<Str("x")>>)
  /\ Get(conv.result, "skills") = Arr(<<Str("x")>>)
  /\ HasKey(conv.data, "hobbies") /\ Get(conv.data, "hobbies") = Null
  /\ HasKey(conv.result, "hobbies") /\ Get(conv.result, "hobbies") = Null

\* C19: the Resume converter on {personalInfo: {startDate: "2020-01-15"},
\* education: "notanarray", user: "507f1f77bcf86cd799439011"} gives the date
\* 2020-01-15, the empty array and the identifier of the hex string.
EndToEndInput ==
  Obj([personalInfo |-> Obj([startDate |-> Str("2020-01-15")]),
       education |-> Str("notanarray"),
       user |-> Str("507f1f77bcf86cd799439011")])

C19_EndToEnd ==
  (conv.fn = "convertResumeData" /\ conv.calls >= 1 /\ conv.data = EndToEndInput)
    => /\ ValueAt(conv.result, <<"personalInfo", "startDate">>) = Date(IsoDates["2020-01-15"])
       /\ Get(conv.result, "education") = Arr(<<>>)
       /\ Get(conv.result, "user") = Oid("507f1f77bcf86cd799439011")
       /\ DOMAIN conv.result.f = {"personalInfo", "education", "user"}

C19_Witness ==
  /\ conv.fn = "convertResumeData" /\ conv.calls = 1
  /\ conv.data = EndToEndInput
  /\ Get(conv.result, "education") = Arr(<<>>)

\* C20: a conversion function that has returned leaves the caller's document,
\* its nested objects and the screenshots of its projects included, as it
\* was before the call.
C20_InputNotMutated ==
  (conv.calls >= 1 /\ conv.fn \notin {"preSave", "preUpdate", "preUpdateSet"}
     /\ conv.result # Throw)
    => conv.after = conv.data

\* C21: at address.coordinates and at personalInfo.address.coordinates, a
\* numeric string lat / lng is replaced by its parsed number and a string
\* that does not parse is left as it is.
CoordinatePoints ==
  {<<"address", "coordinates">>, <<"personalInfo", "address", "coordinates">>}

C21_CoordinatesSoftSkip ==
  (conv.fn = "convertCoordinates" /\ conv.calls >= 1)
    => \A point \in CoordinatePoints : \A k \in {"lat", "lng"} :
         LET v == ValueAt(conv.data, point \o <<k>>)
             r == ValueAt(conv.result, point \o <<k>>)
         IN v.t = "str"
              => IF IsNumericString(v.s) THEN r = ParseFloat(v.s) ELSE r = v

\* C22: an approve handler whose save lands on a document that another
\* save has changed since it was read completes as any other ("ok", nothing
\* reported); the status it set replaces the other writer's, the version is
\* the one read plus one (not the stored one plus one), and the one snapshot
\* pushed carries the version read, so the state the other writer left has
\* no snapshot.
Overtaken(r) ==
  r.pc = "saved" /\ r.modified /\ r.base.version > r.seen.version

C22_LostUpdateUndetected ==
  \A h \in Handlers :
    LET r == reqs[h] IN
    /\ r.pc = "saved" => r.outcome = "ok"
    /\ Overtaken(r)
         => /\ r.status # r.seen.status => r.wrote.status = r.status
            /\ r.wrote.version = r.seen.version + 1
            /\ r.wrote.version <= r.base.version
            /\ Len(r.wrote.previousVersions) = Len(r.base.previousVersions) + 1
            /\ r.wrote.previousVersions[Len(r.wrote.previousVersions)].version
                  = Num(r.seen.version)

\* Both handlers read version 1; one approved, the other rejected; both
\* saves answered "ok" and the resume stands at version 2 with the review of
\* the second alone.
C22_Witness ==
  /\ \A h \in Handlers : reqs[h].pc = "saved" /\ reqs[h].outcome = "ok"
                            /\ reqs[h].seen.version = 1 /\ reqs[h].modified
  /\ reqs["h1"].status = "approved" /\ reqs["h2"].status = "rejected"
  /\ Overtaken(reqs["h2"])
  /\ resumes[1].version = 2
  /\ resumes[1].status = "rejected"
  /\ Len(resumes[1].previousVersions) = 2

\* C23: once the deletion of an account has completed, no resume owned by
\* that account is stored, whatever requests were handled in between.
C23_ResumesCascade ==
  \A u \in Accounts :
    ~users[u].exists
      => \A id \in ResumeIds : resumes[id].exists => resumes[id].user # u

\* C24: an account whose role is super_admin is never removed.
C24_SuperAdminKept ==
  [][\A u \in Accounts :
       (users[u].exists /\ users[u].role = "super_admin") => users'[u].exists]_vars

\* C30: the role of an account changes only in a request made by a super
\* admin.
C30_RoleOnlyBySuperAdmin ==
  [][\A u \in Accounts :
       (users[u].exists /\ users'[u].exists /\ users'[u].role # users[u].role)
         => IsSuperAdmin(last'.by)]_vars

\* C25: a request with a reset token (a verification token) that has been
\* used with success before, or whose lifetime has passed, is answered
\* 'Invalid or expired' and leaves every account as it was.
Lifetime(kind) == IF kind = "verify" THEN EmailVerificationTtl ELSE ResetPasswordTtl

C29_NoTokenWhenDeactivated ==
  last.outcome = "token" => users[last.id].isActive

\* C26: a request on a resume by a user who is neither its owner nor an
\* admin (read, update, delete, duplicate, CSV, JSON, PDF, generate) is
\* refused, discloses nothing and leaves the collection as it was.
RequestOn(u, id) ==
  \/ ReadResume(u, id)
  \/ ExportCsv(u, id)
  \/ ExportJson(u, id)
  \/ GetPdf(u, id)
  \/ GenerateResume(u, id)
  \/ \E body \in UpdateBodies : UpdateResume(u, id, body)
  \/ DeleteResume(u, id)
  \/ DuplicateResume(u, id)

C26_NonOwnerRefused ==
  [][\A u \in Users, id \in ResumeIds :
       ( /\ resumes[id].exists
         /\ resumes[id].user # u
         /\ users[u].role = "user"
         /\ RequestOn(u, id) )
         => /\ last'.outcome \in {"401", "403"}
            /\ "sent" \in DOMAIN last' => last'.sent = NoDoc
            /\ resumes' = resumes
            /\ nextId' = nextId]_vars

\* U2 asked for the PDF of a resume of U1 and was refused.
C26_Witness ==
  /\ last.op = "pdf" /\ last.outcome = "403" /\ last.by = U2
  /\ resumes[last.id].exists /\ resumes[last.id].user = U1
  /\ last.sent = NoDoc

C28_StaticRoutesReachable ==
  (last.op = "route" /\ last.method = "GET")
    => \A i \in 1..Len(Routers[last.router]) :
         (Routers[last.router][i] = Route("GET", last.path)) => last.id = i

====
